---- MODULE Spec2Model ----
(***************************************************************************)
(* Model of scripts/mlp_loop_combined.py: main, experiment_loop (the sweep *)
(* controller) and run_experiment (the trial controller).  The program is  *)
(* sequential; pc is the position of the single thread of control.  The    *)
(* file system (results directory, checkpoint file), the process output    *)
(* stream and the process-wide random number generator are state.          *)
(***************************************************************************)
EXTENDS Integers, Sequences, FiniteSets, TLC

VARIABLES
    pc,               \* position of the thread of control
    err,              \* the exception that ended the process, or NoError
    params,           \* the experiment parameter dictionary (main, l.168-174)
    category_trials,  \* grid of category counts
    exemplar_trials,  \* grid of exemplar counts
    dir_exists,       \* os.path.isdir(results_path)
    files,            \* contents of results_path: file name -> content
    warned,           \* messages emitted through warnings.warn
    console,          \* lines written to the original output stream
    sys_stdout,       \* the global sys.stdout
    stdout,           \* the local `stdout` of experiment_loop (l.129)
    results_o1_gen,   \* in-memory result tensor, order 1
    results_o2_gen,   \* in-memory result tensor, order 2
    i, j,             \* loop indices of experiment_loop (1-based here)
    nb_categories,    \* arguments of the running run_experiment call
    nb_exemplars,
    batch_size,       \* local of run_experiment (l.24)
    rng,              \* draws taken from np.random since it was last seeded
    nb_seed,          \* number of np.random.seed calls made by the process
    X_train, X_train_noisy, X_test_order1, X_test_order2,
    scores_order1, scores_order2,
    rep,              \* loop index `i` of run_experiment (0-based)
    model,            \* the Keras model of the current repetition ({} = none)
    weights_file,     \* '../data/mlp_combined.h5' ({} = no such file)
    shape_set_train, shape_set_test,      \* attribute pools of run_experiment
    color_set_train, color_set_test,
    texture_set_train, texture_set_test,
    drawn             \* attribute values each batch of the call is built from

vars == <<pc, err, params, category_trials, exemplar_trials, dir_exists, files,
          warned, console, sys_stdout, stdout, results_o1_gen, results_o2_gen,
          i, j, nb_categories, nb_exemplars, batch_size, rng, nb_seed,
          X_train, X_train_noisy, X_test_order1, X_test_order2,
          scores_order1, scores_order2, rep, model, weights_file,
          shape_set_train, shape_set_test, color_set_train, color_set_test,
          texture_set_train, texture_set_test, drawn>>

(***************************************************************************)
(* Bounds of the model.                                                    *)
(***************************************************************************)
MaxGridLen == 2
MaxTrials == 2
MaxBatchCfg == 34
TestPoolSize == 3

(***************************************************************************)
(* Program constants.                                                      *)
(***************************************************************************)
MaxCategories == 50
BatchDivisor == 5
BurnPeriod == 100
CheckpointPeriod == 2
LogDigits == 4

CategoryGrid == {2, 4, 8, 16, 32, 50}
ExemplarGrid == {3, 6, 9, 12, 15, 18}

(***************************************************************************)
(* Input sets.                                                             *)
(***************************************************************************)
CategoryValues == {2, 50, 51}
ExemplarValues == {2, 3, 6}
EpochValues == {100, 101}
BatchValues == {32}
NoiseValues == {-50, 0, 150}         \* noise level in percent

SeqsUpTo(S, n) == UNION {[1..k -> S] : k \in 0..n}

IsDistinct(s) == \A a, b \in 1..Len(s) : s[a] = s[b] => a = b

Min(a, b) == IF a <= b THEN a ELSE b

(***************************************************************************)
(* File names.  A log file is named 'log_ca%0.4i_ex%0.4i'.                  *)
(***************************************************************************)
RECURSIVE DigitsOf(_)
DigitsOf(n) == IF n < 10 THEN <<n>> ELSE Append(DigitsOf(n \div 10), n % 10)

RECURSIVE ZeroPad(_)
ZeroPad(s) == IF Len(s) < LogDigits THEN ZeroPad(<<0>> \o s) ELSE s

FormatInt(n) == ZeroPad(DigitsOf(n))

\* variant: the log is named from the category count alone
LogName_CategoryOnly(ca, ex) == [kind |-> "log", name |-> "log_ca_ex",
                                 ca |-> FormatInt(ca), ex |-> <<>>]

LogName(ca, ex) == [kind |-> "log", name |-> "log_ca_ex",
                    ca |-> FormatInt(ca), ex |-> FormatInt(ex)]

NpyName(base) == [kind |-> "npy", name |-> base, ca |-> <<>>, ex |-> <<>>]

Console == [kind |-> "console", name |-> "stdout", ca |-> <<>>, ex |-> <<>>]

CategoryFile == NpyName("category_trials")
ExemplarFile == NpyName("exemplar_trials")
O1File == NpyName("results_o1_gen")
O2File == NpyName("results_o2_gen")

(***************************************************************************)
(* Values.                                                                 *)
(***************************************************************************)
Line(text, args) == [text |-> text, args |-> args]

Content(run, data) == [run |-> run, data |-> data]

Weights(run, cell, r, kind) == [run |-> run, cell |-> cell, rep |-> r, kind |-> kind]

Batch(kind) == [kind |-> kind, noise |-> <<>>]

NoBatch == Batch("none")

Score(order, test, w) == [order |-> order, test |-> test, weights |-> w]

NoWeights == Weights("none", <<0, 0>>, 0, "none")

Zero == Score(0, NoBatch, NoWeights)

Model(w, data) == [weights |-> w, trained_on |-> data]

Cells(cats, exs) == (1..Len(cats)) \X (1..Len(exs))

Zeros(cats, exs, R) == [c \in Cells(cats, exs) |-> [k \in 1..R |-> Zero]]

\* What an earlier, completed sweep over [2, 8] x [3] left in results_path.
PriorFiles ==
    LET cats == <<2, 8>>
        exs == <<3>>
        old == [c \in Cells(cats, exs) |->
                  <<Score(1, Batch("o1"), Weights("prior", c, 0, "best"))>>]
        names == {CategoryFile, ExemplarFile, O1File, O2File,
                  LogName(2, 3), LogName(8, 3)}
    IN [n \in names |->
          IF n = CategoryFile THEN Content("prior", cats)
          ELSE IF n = ExemplarFile THEN Content("prior", exs)
          ELSE IF n \in {O1File, O2File} THEN Content("prior", old)
          ELSE Content("prior", <<Line("Round", <<1>>)>>)]

NoFiles == [n \in {} |-> Content("prior", <<>>)]

StaleWeights == Weights("prior", <<1, 1>>, 0, "best")

\* print(...): the line goes to whatever sys.stdout currently is.
ConsoleAfter(lines) ==
    IF sys_stdout = Console THEN console \o lines ELSE console

FilesAfter(f, lines) ==
    IF sys_stdout = Console THEN f
    ELSE [f EXCEPT ![sys_stdout] = Content(@.run, @.data \o lines)]

(***************************************************************************)
(* Pure functions of run_experiment.                                       *)
(***************************************************************************)
\* variant: the quotient C/5 is floored before it is multiplied by E
BatchSize_DivideFirst(cfg, C, E) == Min(cfg, (C \div BatchDivisor) * E)

\* l.24-27: min(params['batch_size'], int(np.floor(C*E/5)))
BatchSize(cfg, C, E) == Min(cfg, (C * E) \div BatchDivisor)

\* add_noise(X, p): a new batch, noised with the next draw of the process RNG
add_noise(X, draw) == [X EXCEPT !.noise = Append(@, draw)]

(***************************************************************************)
(* Attribute pools.  An attribute value is a number; the three attribute   *)
(* types use the same numbering.                                           *)
(***************************************************************************)
Triple(sh, co, te) == [shape |-> sh, color |-> co, texture |-> te]

NoPools == Triple({}, {}, {})

NoDrawn == [train |-> NoPools, order1 |-> NoPools, order2 |-> NoPools]

\* get_train_test_parameters: for an attribute type, the full train pool of
\* 50 values and the disjoint held-out test pool
get_train_test_parameters ==
    [train |-> 1..MaxCategories,
     test |-> (MaxCategories + 1)..(MaxCategories + TestPoolSize)]

\* train_test_split(pool, n): <<kept, removed>>, n values of the pool removed,
\* which ones being a function of the state of the process RNG
train_test_split(pool, n, draw) ==
    LET N == Cardinality(pool)
        base == CHOOSE x \in pool : \A y \in pool : x <= y
        removed == {base + ((draw * 17 + k) % N) : k \in 0..(n - 1)}
    IN <<pool \ removed, removed>>

\* variant: the pool is used as returned, whatever the category count
ReduceTrain_NotReduced(pool, C, draw) == pool

\* variant: the removed side of the split is kept as the train pool
ReduceTrain_KeepsRemoved(pool, C, draw) ==
    IF C < MaxCategories
    THEN train_test_split(pool, MaxCategories - C, draw)[2]
    ELSE pool

\* l.42-54: the train pool cut down to C values when C < 50
ReduceTrain(pool, C, draw) ==
    IF C < MaxCategories
    THEN train_test_split(pool, MaxCategories - C, draw)[1]
    ELSE pool

\* variant: the train and test pools are handed over in each other's place
Order1Args_Swapped(train, test) == [train |-> test, test |-> train]

\* l.66-70: the pools handed to build_test_trials_o1_bits
Order1Args(train, test) == [train |-> train, test |-> test]

\* variant: the train pools are handed over
Order2Args_TrainPools(train, test) == train

\* l.71-74: the pools handed to build_test_trials_o2_bits
Order2Args(train, test) == test

\* build_train_set_bits: the values the training stimuli are built from
build_train_set_bits(train) == train

\* build_test_trials_o1_bits: seen values, in combinations that are new
build_test_trials_o1_bits(args) == args.train

\* build_test_trials_o2_bits: values of the pools it is given
build_test_trials_o2_bits(pools) == pools

NoError == [type |-> "none", at |-> "none"]

(***************************************************************************)
(* Initial states: the process has parsed its arguments; the file system   *)
(* is either untouched or as an earlier, completed run left it (a results  *)
(* folder and the weights file of that run's last repetition).             *)
(***************************************************************************)
Init ==
    /\ pc = "main"
    /\ err = NoError
    /\ params \in [nb_epochs : EpochValues, batch_size : BatchValues,
                   nb_trials : 0..MaxTrials, noise : NoiseValues]
    /\ category_trials \in SeqsUpTo(CategoryValues, MaxGridLen)
    /\ exemplar_trials \in SeqsUpTo(ExemplarValues, MaxGridLen)
    /\ \/ dir_exists = FALSE /\ files = NoFiles /\ weights_file = {}
       \/ dir_exists = TRUE /\ files = PriorFiles /\ weights_file = {StaleWeights}
    /\ warned = <<>>
    /\ console = <<>>
    /\ sys_stdout = Console
    /\ stdout = Console
    /\ results_o1_gen = <<>>
    /\ results_o2_gen = <<>>
    /\ i = 1
    /\ j = 1
    /\ nb_categories = 0
    /\ nb_exemplars = 0
    /\ batch_size = 0
    /\ rng = 0
    /\ nb_seed = 0
    /\ X_train = NoBatch
    /\ X_train_noisy = NoBatch
    /\ X_test_order1 = NoBatch
    /\ X_test_order2 = NoBatch
    /\ scores_order1 = <<>>
    /\ scores_order2 = <<>>
    /\ rep = 0
    /\ model = {}
    /\ shape_set_train = {}
    /\ shape_set_test = {}
    /\ color_set_train = {}
    /\ color_set_test = {}
    /\ texture_set_train = {}
    /\ texture_set_test = {}
    /\ drawn = NoDrawn

poolVars == <<shape_set_train, shape_set_test, color_set_train, color_set_test,
              texture_set_train, texture_set_test, drawn>>

runVars == <<nb_categories, nb_exemplars, batch_size, rng, nb_seed, X_train,
             X_train_noisy, X_test_order1, X_test_order2, scores_order1,
             scores_order2, rep, model, weights_file, poolVars>>

loopVars == <<results_o1_gen, results_o2_gen, i, j, stdout>>

inputVars == <<params, category_trials, exemplar_trials>>

Raise(e, at) == pc' = "failed" /\ err' = [type |-> e, at |-> at]

(***************************************************************************)
(* main (l.164-182)                                                        *)
(***************************************************************************)
\* variant: only the upper end of the noise range is asserted
Main_UpperBoundOnly ==
    /\ pc = "main"
    /\ IF params.noise <= 100
       THEN /\ pc' = "experiment_loop"
            /\ console' = ConsoleAfter(<<Line("Using noise level", <<params.noise>>)>>)
            /\ UNCHANGED err
       ELSE /\ Raise("AssertionError", "main")
            /\ UNCHANGED console
    /\ UNCHANGED <<inputVars, dir_exists, files, warned, sys_stdout, loopVars, runVars>>

Main ==
    /\ pc = "main"
    /\ IF params.noise >= 0 /\ params.noise <= 100
       THEN /\ pc' = "experiment_loop"
            /\ console' = ConsoleAfter(<<Line("Using noise level", <<params.noise>>)>>)
            /\ UNCHANGED err
       ELSE /\ Raise("AssertionError", "main")
            /\ UNCHANGED console
    /\ UNCHANGED <<inputVars, dir_exists, files, warned, sys_stdout, loopVars, runVars>>

(***************************************************************************)
(* experiment_loop (l.127-162)                                             *)
(***************************************************************************)
\* variant: an existing results folder is kept and written into
Setup_KeepFolder ==
    /\ pc = "experiment_loop"
    /\ stdout' = sys_stdout
    /\ warned' = IF dir_exists
                 THEN Append(warned, "Removing old results folder of the same name!")
                 ELSE warned
    /\ dir_exists' = TRUE
    /\ files' = [n \in DOMAIN files \cup {CategoryFile, ExemplarFile} |->
                   IF n = CategoryFile THEN Content("this", category_trials)
                   ELSE IF n = ExemplarFile THEN Content("this", exemplar_trials)
                   ELSE files[n]]
    /\ results_o1_gen' = Zeros(category_trials, exemplar_trials, params.nb_trials)
    /\ results_o2_gen' = Zeros(category_trials, exemplar_trials, params.nb_trials)
    /\ i' = 1
    /\ j' = 1
    /\ pc' = IF Len(category_trials) = 0 \/ Len(exemplar_trials) = 0
             THEN "complete" ELSE "cell"
    /\ UNCHANGED <<err, inputVars, console, sys_stdout, runVars>>

\* l.129-145: capture stdout, replace the results folder, save the grids,
\* allocate the result tensors.
Setup ==
    /\ pc = "experiment_loop"
    /\ stdout' = sys_stdout
    /\ warned' = IF dir_exists
                 THEN Append(warned, "Removing old results folder of the same name!")
                 ELSE warned
    /\ dir_exists' = TRUE
    /\ files' = [n \in {CategoryFile, ExemplarFile} |->
                   IF n = CategoryFile THEN Content("this", category_trials)
                   ELSE Content("this", exemplar_trials)]
    /\ results_o1_gen' = Zeros(category_trials, exemplar_trials, params.nb_trials)
    /\ results_o2_gen' = Zeros(category_trials, exemplar_trials, params.nb_trials)
    /\ i' = 1
    /\ j' = 1
    /\ pc' = IF Len(category_trials) = 0 \/ Len(exemplar_trials) = 0
             THEN "complete" ELSE "cell"
    /\ UNCHANGED <<err, inputVars, console, sys_stdout, runVars>>

\* l.148-155: progress line, open the cell's log, redirect, call exectue_fn.
CellStart ==
    /\ pc = "cell"
    /\ LET C == category_trials[i]
           E == exemplar_trials[j]
           log_file == LogName(C, E)
           opened == [n \in DOMAIN files \cup {log_file} |->
                        IF n = log_file THEN Content("this", <<>>) ELSE files[n]]
       IN /\ console' = ConsoleAfter(<<Line("Testing for", <<C, E>>)>>)
          /\ files' = FilesAfter(opened, <<>>)
          /\ sys_stdout' = log_file
          /\ nb_categories' = C
          /\ nb_exemplars' = E
    /\ pc' = "run_experiment"
    /\ UNCHANGED <<err, inputVars, dir_exists, warned, loopVars, batch_size, rng,
                   nb_seed, X_train, X_train_noisy, X_test_order1, X_test_order2,
                   scores_order1, scores_order2, rep, model, weights_file, poolVars>>

(***************************************************************************)
(* run_experiment (l.21-125)                                               *)
(***************************************************************************)
\* variant: the generator is seeded ahead of the category assertion
RunEntry_SeedFirst ==
    /\ pc = "run_experiment"
    /\ IF nb_categories <= MaxCategories
       THEN /\ batch_size' = BatchSize(params.batch_size, nb_categories, nb_exemplars)
            /\ rng' = 0
            /\ nb_seed' = nb_seed + 1
            /\ pc' = "build"
            /\ UNCHANGED err
       ELSE /\ Raise("AssertionError", "run_experiment")
            /\ rng' = 0
            /\ nb_seed' = nb_seed + 1
            /\ UNCHANGED batch_size
    /\ UNCHANGED <<inputVars, dir_exists, files, warned, console, sys_stdout,
                   loopVars, nb_categories, nb_exemplars, X_train, X_train_noisy,
                   X_test_order1, X_test_order2, scores_order1, scores_order2,
                   rep, model, weights_file, poolVars>>

\* l.22-34: the category assertion, the batch size cap, the seed.
RunEntry ==
    /\ pc = "run_experiment"
    /\ IF nb_categories <= MaxCategories
       THEN /\ batch_size' = BatchSize(params.batch_size, nb_categories, nb_exemplars)
            /\ rng' = 0
            /\ nb_seed' = nb_seed + 1
            /\ pc' = "build"
            /\ UNCHANGED err
       ELSE /\ Raise("AssertionError", "run_experiment")
            /\ UNCHANGED <<batch_size, rng, nb_seed>>
    /\ UNCHANGED <<inputVars, dir_exists, files, warned, console, sys_stdout,
                   loopVars, nb_categories, nb_exemplars, X_train, X_train_noisy,
                   X_test_order1, X_test_order2, scores_order1, scores_order2,
                   rep, model, weights_file, poolVars>>

\* l.38-78: pools, training set, test trials, the noise on the test trials.
Build ==
    /\ pc = "build"
    /\ LET splits == IF nb_categories < MaxCategories THEN 3 ELSE 0
           full == get_train_test_parameters
           train == Triple(ReduceTrain(full.train, nb_categories, rng),
                           ReduceTrain(full.train, nb_categories, rng + 1),
                           ReduceTrain(full.train, nb_categories, rng + 2))
           test == Triple(full.test, full.test, full.test)
       IN /\ shape_set_train' = train.shape
          /\ color_set_train' = train.color
          /\ texture_set_train' = train.texture
          /\ shape_set_test' = test.shape
          /\ color_set_test' = test.color
          /\ texture_set_test' = test.texture
          /\ drawn' = [train |-> build_train_set_bits(train),
                       order1 |-> build_test_trials_o1_bits(Order1Args(train, test)),
                       order2 |-> build_test_trials_o2_bits(Order2Args(train, test))]
          /\ X_train' = Batch("train")
          /\ X_test_order1' = add_noise(Batch("o1"), rng + splits)
          /\ X_test_order2' = add_noise(Batch("o2"), rng + splits + 1)
          /\ rng' = rng + splits + 2
    /\ files' = FilesAfter(files, <<Line("Building the training set...", <<>>),
                                    Line("Building test trials...", <<>>)>>)
    /\ console' = ConsoleAfter(<<Line("Building the training set...", <<>>),
                                 Line("Building test trials...", <<>>)>>)
    /\ scores_order1' = <<>>
    /\ scores_order2' = <<>>
    /\ rep' = 0
    /\ pc' = IF params.nb_trials > 0 THEN "round" ELSE "return"
    /\ UNCHANGED <<err, inputVars, dir_exists, warned, sys_stdout, loopVars,
                   nb_categories, nb_exemplars, batch_size, nb_seed,
                   X_train_noisy, model, weights_file>>

\* variant: the generator is seeded again at the top of every repetition
Round_Reseeded ==
    /\ pc = "round"
    /\ files' = FilesAfter(files, <<Line("Round", <<rep + 1>>)>>)
    /\ console' = ConsoleAfter(<<Line("Round", <<rep + 1>>)>>)
    /\ X_train_noisy' = add_noise(X_train, 0)
    /\ rng' = 1
    /\ nb_seed' = nb_seed + 1
    /\ model' = {Model(Weights("this", <<i, j>>, rep, "init"), NoBatch)}
    /\ pc' = "checkpoint"
    /\ UNCHANGED <<err, inputVars, dir_exists, warned, sys_stdout, loopVars,
                   nb_categories, nb_exemplars, batch_size, X_train,
                   X_test_order1, X_test_order2, scores_order1, scores_order2,
                   rep, weights_file, poolVars>>

\* variant: the noise is applied to the training set itself, in place
Round_NoiseInPlace ==
    /\ pc = "round"
    /\ files' = FilesAfter(files, <<Line("Round", <<rep + 1>>)>>)
    /\ console' = ConsoleAfter(<<Line("Round", <<rep + 1>>)>>)
    /\ X_train' = add_noise(X_train, rng)
    /\ X_train_noisy' = add_noise(X_train, rng)
    /\ rng' = rng + 1
    /\ model' = {Model(Weights("this", <<i, j>>, rep, "init"), NoBatch)}
    /\ pc' = "checkpoint"
    /\ UNCHANGED <<err, inputVars, dir_exists, warned, sys_stdout, loopVars,
                   nb_categories, nb_exemplars, batch_size, nb_seed,
                   X_test_order1, X_test_order2, scores_order1, scores_order2,
                   rep, weights_file, poolVars>>

\* variant: a model that exists already is used again
Round_ModelReused ==
    /\ pc = "round"
    /\ files' = FilesAfter(files, <<Line("Round", <<rep + 1>>)>>)
    /\ console' = ConsoleAfter(<<Line("Round", <<rep + 1>>)>>)
    /\ X_train_noisy' = add_noise(X_train, rng)
    /\ rng' = rng + 1
    /\ model' = IF model = {}
                THEN {Model(Weights("this", <<i, j>>, rep, "init"), NoBatch)}
                ELSE model
    /\ pc' = "checkpoint"
    /\ UNCHANGED <<err, inputVars, dir_exists, warned, sys_stdout, loopVars,
                   nb_categories, nb_exemplars, batch_size, nb_seed, X_train,
                   X_test_order1, X_test_order2, scores_order1, scores_order2,
                   rep, weights_file, poolVars>>

\* l.80-86: a noisy copy of the training set and a new model.
Round ==
    /\ pc = "round"
    /\ files' = FilesAfter(files, <<Line("Round", <<rep + 1>>)>>)
    /\ console' = ConsoleAfter(<<Line("Round", <<rep + 1>>)>>)
    /\ X_train_noisy' = add_noise(X_train, rng)
    /\ rng' = rng + 1
    /\ model' = {Model(Weights("this", <<i, j>>, rep, "init"), NoBatch)}
    /\ pc' = "checkpoint"
    /\ UNCHANGED <<err, inputVars, dir_exists, warned, sys_stdout, loopVars,
                   nb_categories, nb_exemplars, batch_size, nb_seed, X_train,
                   X_test_order1, X_test_order2, scores_order1, scores_order2,
                   rep, weights_file, poolVars>>

\* variant: a weights file that is already there is left in place
RemoveWeightsFile_Kept ==
    /\ pc = "checkpoint"
    /\ pc' = "train_model"
    /\ UNCHANGED <<err, inputVars, dir_exists, files, warned, console, sys_stdout,
                   loopVars, runVars>>

\* l.89-98: remove the weights file if there is one, create the callback.
RemoveWeightsFile ==
    /\ pc = "checkpoint"
    /\ weights_file' = {}
    /\ pc' = "train_model"
    /\ UNCHANGED <<err, inputVars, dir_exists, files, warned, console, sys_stdout,
                   loopVars, nb_categories, nb_exemplars, batch_size, rng, nb_seed,
                   X_train, X_train_noisy, X_test_order1, X_test_order2,
                   scores_order1, scores_order2, rep, model, poolVars>>

\* The snapshots the checkpoint callback may leave after train_model: none
\* within the burn-in, one once a whole checkpoint period follows it.
Snapshots(epochs, w) ==
    IF epochs - BurnPeriod <= 0 THEN {{}}
    ELSE IF epochs - BurnPeriod < CheckpointPeriod THEN {{}, {w}}
    ELSE {{w}}

\* the Trainer tolerates a batch size >= 1 and fails fast on one that is not
TrainerAccepts(b) == b >= 1

\* l.101-105: train_model.
TrainModel ==
    /\ pc = "train_model"
    /\ IF TrainerAccepts(batch_size)
       THEN /\ model' = {Model([m.weights EXCEPT !.kind = "fit"], X_train_noisy) :
                            m \in model}
            /\ \E m \in model :
                  weights_file' \in
                     Snapshots(params.nb_epochs, [m.weights EXCEPT !.kind = "best"])
            /\ pc' = "load_weights"
            /\ UNCHANGED err
       ELSE /\ Raise("ValueError", "train_model")
            /\ UNCHANGED <<model, weights_file>>
    /\ UNCHANGED <<inputVars, dir_exists, files, warned, console, sys_stdout,
                   loopVars, nb_categories, nb_exemplars, batch_size, rng, nb_seed,
                   X_train, X_train_noisy, X_test_order1, X_test_order2,
                   scores_order1, scores_order2, rep, poolVars>>

\* variant: a missing weights file is skipped and the model scored as trained
LoadWeights_Tolerant ==
    /\ pc = "load_weights"
    /\ model' = IF weights_file # {}
                THEN {Model(w, m.trained_on) : w \in weights_file, m \in model}
                ELSE model
    /\ pc' = "evaluate"
    /\ UNCHANGED <<err, inputVars, dir_exists, files, warned, console, sys_stdout,
                   loopVars, nb_categories, nb_exemplars, batch_size, rng, nb_seed,
                   X_train, X_train_noisy, X_test_order1, X_test_order2,
                   scores_order1, scores_order2, rep, weights_file, poolVars>>

\* l.108: model.load_weights(weights_file)
LoadWeights ==
    /\ pc = "load_weights"
    /\ IF weights_file # {}
       THEN /\ model' = {Model(w, m.trained_on) : w \in weights_file, m \in model}
            /\ pc' = "evaluate"
            /\ UNCHANGED err
       ELSE /\ Raise("IOError", "load_weights")
            /\ UNCHANGED model
    /\ UNCHANGED <<inputVars, dir_exists, files, warned, console, sys_stdout,
                   loopVars, nb_categories, nb_exemplars, batch_size, rng, nb_seed,
                   X_train, X_train_noisy, X_test_order1, X_test_order2,
                   scores_order1, scores_order2, rep, weights_file, poolVars>>

\* l.110-121: score both test batches, append, next repetition.
Evaluate ==
    /\ pc = "evaluate"
    /\ \E m \in model :
          /\ scores_order1' = Append(scores_order1, Score(1, X_test_order1, m.weights))
          /\ scores_order2' = Append(scores_order2, Score(2, X_test_order2, m.weights))
    /\ files' = FilesAfter(files, <<Line("First-order generalization", <<>>),
                                    Line("Second-order generalization", <<>>)>>)
    /\ console' = ConsoleAfter(<<Line("First-order generalization", <<>>),
                                 Line("Second-order generalization", <<>>)>>)
    /\ rep' = rep + 1
    /\ pc' = IF rep + 1 < params.nb_trials THEN "round" ELSE "return"
    /\ UNCHANGED <<err, inputVars, dir_exists, warned, sys_stdout, loopVars,
                   nb_categories, nb_exemplars, batch_size, rng, nb_seed, X_train,
                   X_train_noisy, X_test_order1, X_test_order2, model, weights_file, poolVars>>

\* l.122-125 and l.154-156: the call returns, the two slices are written,
\* sys.stdout is set back.
Return ==
    /\ pc = "return"
    /\ results_o1_gen' = [results_o1_gen EXCEPT ![<<i, j>>] = scores_order1]
    /\ results_o2_gen' = [results_o2_gen EXCEPT ![<<i, j>>] = scores_order2]
    /\ sys_stdout' = stdout
    /\ pc' = "save_o1"
    /\ UNCHANGED <<err, inputVars, dir_exists, files, warned, console, i, j, stdout,
                   runVars>>

\* variant: the order-1 tensor is not written after the cell
SaveO1_NotSaved ==
    /\ pc = "save_o1"
    /\ UNCHANGED files
    /\ pc' = "save_o2"
    /\ UNCHANGED <<err, inputVars, dir_exists, warned, console, sys_stdout, loopVars,
                   runVars>>

\* l.158-159
SaveO1 ==
    /\ pc = "save_o1"
    /\ files' = [n \in DOMAIN files \cup {O1File} |->
                   IF n = O1File THEN Content("this", results_o1_gen) ELSE files[n]]
    /\ pc' = "save_o2"
    /\ UNCHANGED <<err, inputVars, dir_exists, warned, console, sys_stdout, loopVars,
                   runVars>>

\* variant: the order-2 tensor is not written after the cell
SaveO2_NotSaved ==
    /\ pc = "save_o2"
    /\ IF j < Len(exemplar_trials)
       THEN i' = i /\ j' = j + 1 /\ pc' = "cell"
       ELSE IF i < Len(category_trials)
            THEN i' = i + 1 /\ j' = 1 /\ pc' = "cell"
            ELSE i' = i /\ j' = j /\ pc' = "complete"
    /\ UNCHANGED <<err, inputVars, dir_exists, files, warned, console, sys_stdout,
                   results_o1_gen, results_o2_gen, stdout, runVars>>

\* variant: the cells are visited column by column
SaveO2_ColumnMajor ==
    /\ pc = "save_o2"
    /\ files' = [n \in DOMAIN files \cup {O2File} |->
                   IF n = O2File THEN Content("this", results_o2_gen) ELSE files[n]]
    /\ IF i < Len(category_trials)
       THEN i' = i + 1 /\ j' = j /\ pc' = "cell"
       ELSE IF j < Len(exemplar_trials)
            THEN i' = 1 /\ j' = j + 1 /\ pc' = "cell"
            ELSE i' = i /\ j' = j /\ pc' = "complete"
    /\ UNCHANGED <<err, inputVars, dir_exists, warned, console, sys_stdout,
                   results_o1_gen, results_o2_gen, stdout, runVars>>

\* l.160-161, then the next cell in row-major order (l.146-147)
SaveO2 ==
    /\ pc = "save_o2"
    /\ files' = [n \in DOMAIN files \cup {O2File} |->
                   IF n = O2File THEN Content("this", results_o2_gen) ELSE files[n]]
    /\ IF j < Len(exemplar_trials)
       THEN i' = i /\ j' = j + 1 /\ pc' = "cell"
       ELSE IF i < Len(category_trials)
            THEN i' = i + 1 /\ j' = 1 /\ pc' = "cell"
            ELSE i' = i /\ j' = j /\ pc' = "complete"
    /\ UNCHANGED <<err, inputVars, dir_exists, warned, console, sys_stdout,
                   results_o1_gen, results_o2_gen, stdout, runVars>>

\* l.162
Complete ==
    /\ pc = "complete"
    /\ console' = ConsoleAfter(<<Line("Experiment loop complete.", <<>>)>>)
    /\ files' = FilesAfter(files, <<Line("Experiment loop complete.", <<>>)>>)
    /\ pc' = "done"
    /\ UNCHANGED <<err, inputVars, dir_exists, warned, sys_stdout, loopVars, runVars>>

Next ==
    \/ Main
    \/ Setup
    \/ CellStart
    \/ RunEntry
    \/ Build
    \/ Round
    \/ RemoveWeightsFile
    \/ TrainModel
    \/ LoadWeights
    \/ Evaluate
    \/ Return
    \/ SaveO1
    \/ SaveO2
    \/ Complete

Spec == Init /\ [][Next]_vars

TypeOK == pc \in {"main", "experiment_loop", "cell", "run_experiment", "build",
                  "round", "checkpoint", "train_model", "load_weights", "evaluate",
                  "return", "save_o1", "save_o2", "complete", "done", "failed"}

(***************************************************************************)
(* Vocabulary of the properties.                                           *)
(***************************************************************************)
\* positions inside the run_experiment call of the current cell
RunPcs == {"run_experiment", "build", "round", "checkpoint", "train_model",
           "load_weights", "evaluate", "return"}

\* positions inside the repetition loop of run_experiment
RoundPcs == {"checkpoint", "train_model", "load_weights", "evaluate"}

NC == Len(category_trials)
NE == Len(exemplar_trials)
R == params.nb_trials

\* the cells that precede cell (a, b) in row-major order
CellsBefore(a, b) ==
    {c \in Cells(category_trials, exemplar_trials) :
        c[1] < a \/ (c[1] = a /\ c[2] < b)}

\* row holds the scores run_experiment returned for cell c in this sweep
IsReturnedRow(row, order, c) ==
    /\ Len(row) = R
    /\ \A k \in 1..R :
          /\ row[k].order = order
          /\ row[k].weights = Weights("this", c, k - 1, "best")

\* cell c of both on-disk tensors holds the scores returned for c
Persisted(c) ==
    /\ O1File \in DOMAIN files
    /\ O2File \in DOMAIN files
    /\ IsReturnedRow(files[O1File].data[c], 1, c)
    /\ IsReturnedRow(files[O2File].data[c], 2, c)

\* C1: whenever a grid cell is begun or in flight, both on-disk tensors hold
\* the scores returned for every cell that precedes it in row-major order.
C1_PersistedBeforeNextCell ==
    \A c \in CellsBefore(i, j) : Persisted(c)

C1_Witness ==
    /\ pc = "run_experiment"
    /\ i = 2
    /\ j = 2
    /\ R = 2

\* C2: sys.stdout is the cell's log file only while exectue_fn runs and is
\* the stream captured at entry otherwise; no progress line is in a log.
C2_RedirectOnlyWhileRunning ==
    /\ pc \in RunPcs => sys_stdout = LogName(category_trials[i], exemplar_trials[j])
    /\ pc \notin RunPcs => sys_stdout = stdout
    /\ \A n \in DOMAIN files :
          n.kind = "log" /\ files[n].run = "this" =>
             \A k \in 1..Len(files[n].data) :
                files[n].data[k].text \notin {"Testing for", "Experiment loop complete."}

\* C3: the checkpoint file is absent when training starts, and the weights
\* a model is scored with were saved during that same repetition's training.
C3_WeightsFromThisRepetition ==
    /\ pc = "train_model" => weights_file = {}
    /\ pc = "evaluate" =>
          \A m \in model : m.weights = Weights("this", <<i, j>>, rep, "best")
    /\ pc \in RunPcs \ {"run_experiment", "build"} =>
          \A k \in 1..Len(scores_order1) :
             /\ scores_order1[k].weights = Weights("this", <<i, j>>, k - 1, "best")
             /\ scores_order2[k].weights = Weights("this", <<i, j>>, k - 1, "best")

C3_Witness ==
    /\ pc = "evaluate"
    /\ rep = 1
    /\ i = 2

ZeroRow == [k \in 1..R |-> Zero]

\* C4: when restoration finds no snapshot (as it must when the epoch budget
\* is within the burn-in), the step raises, leaves the cell's slices unwritten
\* in memory and on disk, and nothing runs after a failure.
C4_MissingCheckpointStopsSweep ==
    [][/\ pc # "failed"
       /\ pc = "load_weights" /\ params.nb_epochs <= BurnPeriod => weights_file = {}
       /\ pc = "load_weights" /\ weights_file = {} =>
             /\ pc' = "failed"
             /\ err'.type = "IOError"
             /\ Len(scores_order1') < R
             /\ results_o1_gen'[<<i, j>>] = ZeroRow
             /\ results_o2_gen'[<<i, j>>] = ZeroRow
             /\ \A n \in {O1File, O2File} \cap DOMAIN files' :
                   files'[n].data[<<i, j>>] = ZeroRow]_vars

C4_Witness ==
    /\ pc = "failed"
    /\ err.type = "IOError"
    /\ O1File \in DOMAIN files
    /\ rep = 1

\* C5: a batch size cap of 0 stops run_experiment before a model is built,
\* and train_model is only called with batch_size >= 1.
C5_FailFastOnZeroBatch ==
    /\ pc \in RoundPcs => (nb_categories * nb_exemplars) \div BatchDivisor # 0
    /\ pc = "train_model" => batch_size >= 1

(***************************************************************************)
(* The batch size cap on the documented grids (main, l.176-177): the call  *)
(* run_experiment(C, E, params) is entered for a C of the category grid    *)
(* and, as the inner loop of experiment_loop does for a sorted row, for    *)
(* increasing E of the exemplar grid.                                      *)
(***************************************************************************)
InitBatch ==
    /\ pc = "run_experiment"
    /\ err = NoError
    /\ params \in [nb_epochs : {400}, batch_size : 1..MaxBatchCfg,
                   nb_trials : {10}, noise : {0}]
    /\ category_trials = <<>>
    /\ exemplar_trials = <<>>
    /\ dir_exists = TRUE
    /\ files = NoFiles
    /\ warned = <<>>
    /\ console = <<>>
    /\ sys_stdout = Console
    /\ stdout = Console
    /\ results_o1_gen = <<>>
    /\ results_o2_gen = <<>>
    /\ i = 1
    /\ j = 1
    /\ nb_categories \in CategoryGrid
    /\ nb_exemplars \in ExemplarGrid
    /\ batch_size = 0
    /\ rng = 0
    /\ nb_seed = 0
    /\ X_train = NoBatch
    /\ X_train_noisy = NoBatch
    /\ X_test_order1 = NoBatch
    /\ X_test_order2 = NoBatch
    /\ scores_order1 = <<>>
    /\ scores_order2 = <<>>
    /\ rep = 0
    /\ model = {}
    /\ shape_set_train = {}
    /\ shape_set_test = {}
    /\ color_set_train = {}
    /\ color_set_test = {}
    /\ texture_set_train = {}
    /\ texture_set_test = {}
    /\ drawn = NoDrawn
    /\ weights_file = {}

\* the next call of the row: same C, a larger E of the grid
NextExemplars ==
    /\ pc = "build"
    /\ \E E \in ExemplarGrid : E > nb_exemplars /\ nb_exemplars' = E
    /\ pc' = "run_experiment"
    /\ UNCHANGED <<err, inputVars, dir_exists, files, warned, console, sys_stdout,
                   loopVars, nb_categories, batch_size, rng, nb_seed, X_train,
                   X_train_noisy, X_test_order1, X_test_order2, scores_order1,
                   scores_order2, rep, model, weights_file, poolVars>>

NextBatch ==
    \/ RunEntry
    \/ NextExemplars

BatchSpec == InitBatch /\ [][NextBatch]_vars

\* C6: on the documented grids and for a configured batch size >= 1, the
\* batch size set at entry is min(configured, floor(C*E/5)), lies between 1
\* and the configured size, and is not below the one of a smaller E.
C6_BatchSizeCap ==
    [][pc' = "build" =>
          /\ batch_size' >= 1
          /\ batch_size' <= params.batch_size
          /\ BatchDivisor * batch_size' <= nb_categories * nb_exemplars
          /\ \/ batch_size' = params.batch_size
             \/ nb_categories * nb_exemplars < BatchDivisor * (batch_size' + 1)
          /\ batch_size' >= batch_size]_vars

C6_Witness ==
    /\ pc = "build"
    /\ nb_exemplars = 18
    /\ batch_size > 1
    /\ batch_size < params.batch_size

\* C7 (as stated): np.random.seed has been called once for every repetition
\* begun so far.
C7_ReseededEveryRepetition ==
    pc \in RoundPcs => nb_seed = ((i - 1) * NE + (j - 1)) * R + rep + 1

\* the draws run_experiment takes between the seed and the repetition loop
SetupDraws(C) == (IF C < MaxCategories THEN 3 ELSE 0) + 2

\* C7 (amended): np.random.seed is called once per run_experiment call, ahead
\* of the repetition loop, and repetition r starts r draws further along the
\* stream than repetition 0.
C7_ReseededOncePerCall ==
    /\ pc \in RunPcs \ {"run_experiment"} => nb_seed = (i - 1) * NE + j
    /\ pc = "round" => rng = SetupDraws(nb_categories) + rep
    /\ pc \in RoundPcs => rng = SetupDraws(nb_categories) + rep + 1

C7_Witness ==
    /\ pc = "round"
    /\ rep = 1
    /\ j = 2

\* C8: inside the repetition loop the training set is un-noised, each test
\* batch carries the single noise layer applied ahead of the loop, every
\* score so far was computed on these same test batches, and the noisy
\* training copy is one fresh layer over the clean training set.
C8_NoiseOncePerTestBatch ==
    pc \in RoundPcs \cup {"round", "return"} =>
       /\ X_train = Batch("train")
       /\ X_test_order1 = add_noise(Batch("o1"), SetupDraws(nb_categories) - 2)
       /\ X_test_order2 = add_noise(Batch("o2"), SetupDraws(nb_categories) - 1)
       /\ \A k \in 1..Len(scores_order1) :
             /\ scores_order1[k].test = X_test_order1
             /\ scores_order2[k].test = X_test_order2
       /\ pc \in RoundPcs =>
             X_train_noisy = add_noise(Batch("train"), SetupDraws(nb_categories) + rep)
       /\ pc \in {"load_weights", "evaluate"} =>
             \A m \in model : m.trained_on = X_train_noisy

C8_Witness ==
    /\ pc = "evaluate"
    /\ rep = 1
    /\ Len(scores_order1) = 1

\* the process has entered the sweep and replaced the results folder
SweepStarted == pc \notin {"main", "experiment_loop"} /\ err.at # "main"

\* C9: a sweep into an existing results folder warns and leaves nothing of
\* the folder's earlier contents; when it is done the tensors on disk are
\* the ones of this sweep.
C9_OldResultsReplaced ==
    /\ [](SweepStarted =>
            /\ dir_exists
            /\ \A n \in DOMAIN files : files[n].run = "this"
            /\ pc = "done" /\ O1File \in DOMAIN files =>
                  /\ files[O1File] = Content("this", results_o1_gen)
                  /\ files[O2File] = Content("this", results_o2_gen)
                  /\ \A c \in Cells(category_trials, exemplar_trials) : Persisted(c))
    /\ [][pc = "experiment_loop" /\ dir_exists =>
             /\ warned' = Append(warned, "Removing old results folder of the same name!")
             /\ \A n \in DOMAIN files' : files'[n].run = "this"]_vars

C9_Witness ==
    /\ pc = "done"
    /\ warned # <<>>
    /\ O1File \in DOMAIN files
    /\ LogName(2, 3) \in DOMAIN files

LogNames == {LogName(category_trials[c[1]], exemplar_trials[c[2]]) :
               c \in Cells(category_trials, exemplar_trials)}

\* the layout of the results folder after a sweep
CompleteLayout ==
    /\ DOMAIN files = LogNames \cup {CategoryFile, ExemplarFile, O1File, O2File}
    /\ Cardinality({n \in DOMAIN files : n.kind = "log"}) = NC * NE
    /\ files[CategoryFile].data = category_trials
    /\ files[ExemplarFile].data = exemplar_trials
    /\ \A n \in {O1File, O2File} :
          /\ DOMAIN files[n].data = Cells(category_trials, exemplar_trials)
          /\ \A c \in Cells(category_trials, exemplar_trials) :
                Len(files[n].data[c]) = R
    /\ \A c \in Cells(category_trials, exemplar_trials) : Persisted(c)

DistinctGrids == IsDistinct(category_trials) /\ IsDistinct(exemplar_trials)

\* C10 (as stated): after a completed sweep over grids of distinct values
\* the folder holds one log per cell, the two grid files and the two tensors,
\* each of shape [NC, NE, R] and holding every cell's returned scores.
C10_LayoutAfterSweep ==
    pc = "done" /\ DistinctGrids => CompleteLayout

\* C10 (amended): the same, for grids that are not empty.
C10_LayoutAfterNonEmptySweep ==
    pc = "done" /\ DistinctGrids /\ NC > 0 /\ NE > 0 => CompleteLayout

C10_Witness ==
    /\ pc = "done"
    /\ DistinctGrids
    /\ NC = 2
    /\ NE = 2
    /\ R = 2

(***************************************************************************)
(* Attribute pools of the running call.                                    *)
(***************************************************************************)
\* positions of run_experiment at which the pools and batches are built
BuiltPcs == RunPcs \ {"run_experiment", "build"}

TrainPools == Triple(shape_set_train, color_set_train, texture_set_train)

TestPools == Triple(shape_set_test, color_set_test, texture_set_test)

Attributes == {"shape", "color", "texture"}

\* every value get_train_test_parameters returns for an attribute type
Universe == get_train_test_parameters.train \cup get_train_test_parameters.test

\* C11 (as stated): the train and the test pool of every attribute are
\* disjoint and together make up the whole universe, whatever C is.
C11_PoolsCoverUniverse ==
    pc \in BuiltPcs =>
       \A a \in Attributes :
          /\ TrainPools[a] \cap TestPools[a] = {}
          /\ Cardinality(TrainPools[a] \cup TestPools[a]) = Cardinality(Universe)

\* C11 (amended): the train and the test pool of every attribute are
\* disjoint; together they hold C values more than the test pool, which is
\* the whole universe only for C = 50.
C11_PoolsDisjoint ==
    pc \in BuiltPcs =>
       \A a \in Attributes :
          /\ TrainPools[a] \cap TestPools[a] = {}
          /\ TrainPools[a] \cup TestPools[a] \subseteq Universe
          /\ Cardinality(TrainPools[a] \cup TestPools[a])
                = nb_categories + Cardinality(TestPools[a])
          /\ TrainPools[a] \cup TestPools[a] = Universe
                <=> nb_categories = MaxCategories

C11_Witness ==
    /\ pc = "round"
    /\ nb_categories = 2
    /\ i = 2

\* C12: every train pool holds exactly C values of the full train pool, and
\* every test pool is the test pool of the initial split.
C12_OnlyTrainReduced ==
    pc \in BuiltPcs =>
       \A a \in Attributes :
          /\ Cardinality(TrainPools[a]) = nb_categories
          /\ TrainPools[a] \subseteq get_train_test_parameters.train
          /\ TestPools[a] = get_train_test_parameters.test

C12_Witness ==
    /\ pc = "train_model"
    /\ nb_categories = 2
    /\ shape_set_train # color_set_train

\* C13: no value of the order-2 batch is in a train pool of the call; the
\* values of the batch are those of the test pools.
C13_Order2HeldOut ==
    pc \in BuiltPcs =>
       \A a \in Attributes :
          /\ drawn.order2[a] \cap TrainPools[a] = {}
          /\ drawn.order2[a] \cap get_train_test_parameters.train = {}
          /\ drawn.order2[a] \subseteq TestPools[a]
          /\ drawn.order2[a] # {}

C13_Witness ==
    /\ pc = "evaluate"
    /\ nb_categories = 50
    /\ drawn.order2.shape = shape_set_test

C15_ScoresPerRepetition ==
    /\ pc = "return" =>
          /\ Len(scores_order1) = R
          /\ Len(scores_order2) = R
          /\ \A k \in 1..R :
                /\ scores_order1[k] =
                      Score(1, X_test_order1, Weights("this", <<i, j>>, k - 1, "best"))
                /\ scores_order2[k] =
                      Score(2, X_test_order2, Weights("this", <<i, j>>, k - 1, "best"))
    /\ pc \in RoundPcs =>
          /\ Cardinality(model) = 1
          /\ Len(scores_order1) = rep
          /\ \A m \in model :
                /\ m.weights.run = "this"
                /\ m.weights.cell = <<i, j>>
                /\ m.weights.rep = rep
    /\ pc \in {"save_o1", "save_o2"} =>
          /\ results_o1_gen[<<i, j>>] = scores_order1
          /\ results_o2_gen[<<i, j>>] = scores_order2

C15_Witness ==
    /\ pc = "return"
    /\ R = 2
    /\ Len(scores_order2) = 2
    /\ j = 2

\* C16: a call with more than 50 categories raises at once: nothing is
\* seeded, built, removed or scored by it.
C16_TooManyCategoriesRejected ==
    [][pc = "run_experiment" /\ nb_categories > MaxCategories =>
          /\ pc' = "failed"
          /\ err' = [type |-> "AssertionError", at |-> "run_experiment"]
          /\ results_o1_gen'[<<i, j>>] = ZeroRow
          /\ results_o2_gen'[<<i, j>>] = ZeroRow
          /\ UNCHANGED <<rng, nb_seed, poolVars, X_train, X_train_noisy,
                         X_test_order1, X_test_order2, model, weights_file,
                         scores_order1, scores_order2, results_o1_gen,
                         results_o2_gen, files, batch_size>>]_vars

C16_Witness ==
    /\ pc = "failed"
    /\ err.at = "run_experiment"
    /\ nb_categories = 51
    /\ nb_seed = 1
    /\ weights_file # {}

\* C17: a noise level outside [0, 1] ends the process in main: the results
\* folder is neither removed nor created and no cell is run.
C17_NoiseOutOfRangeRejected ==
    [][/\ pc = "main" /\ (params.noise < 0 \/ params.noise > 100) =>
             /\ pc' = "failed"
             /\ err' = [type |-> "AssertionError", at |-> "main"]
             /\ UNCHANGED <<dir_exists, files, warned, console, sys_stdout,
                            loopVars, runVars>>
       /\ pc' \in RunPcs \cup {"experiment_loop", "cell"} =>
             params.noise >= 0 /\ params.noise <= 100]_vars

C17_Witness ==
    /\ pc = "failed"
    /\ err.at = "main"
    /\ params.noise < 0
    /\ files = PriorFiles

\* position of cell (a, b) in row-major order
RowMajorIndex(a, b) == (a - 1) * NE + b

\* C18: the cells are run one after the other in row-major order; a slice of
\* the tensors is written once, when its cell returns, and a written slice
\* keeps its values in memory and on disk.
C18_RowMajorWriteOnce ==
    [][/\ pc = "experiment_loop" /\ pc' = "cell" => i' = 1 /\ j' = 1
       /\ pc = "save_o2" /\ pc' = "cell" =>
             /\ RowMajorIndex(i', j') = RowMajorIndex(i, j) + 1
             /\ <<i', j'>> \in Cells(category_trials, exemplar_trials)
       /\ pc = "save_o2" /\ pc' = "complete" =>
             RowMajorIndex(i, j) = NC * NE
       /\ pc' = "cell" => pc \in {"experiment_loop", "save_o2"}
       /\ <<i', j'>> # <<i, j>> => pc \in {"experiment_loop", "save_o2"}
       /\ pc # "experiment_loop"
             /\ <<results_o1_gen', results_o2_gen'>> # <<results_o1_gen, results_o2_gen>> =>
             /\ pc = "return"
             /\ results_o1_gen[<<i, j>>] = ZeroRow
             /\ results_o2_gen[<<i, j>>] = ZeroRow
             /\ results_o1_gen'[<<i, j>>] = scores_order1
             /\ results_o2_gen'[<<i, j>>] = scores_order2
             /\ \A c \in Cells(category_trials, exemplar_trials) \ {<<i, j>>} :
                   /\ results_o1_gen'[c] = results_o1_gen[c]
                   /\ results_o2_gen'[c] = results_o2_gen[c]
       /\ SweepStarted =>
             \A n \in {O1File, O2File} \cap DOMAIN files :
                /\ n \in DOMAIN files'
                /\ \A c \in Cells(category_trials, exemplar_trials) :
                      files[n].data[c] # ZeroRow =>
                         files'[n].data[c] = files[n].data[c]]_vars

C18_Witness ==
    /\ pc = "cell"
    /\ i = 2
    /\ j = 1
    /\ NE = 2
    /\ R = 2

\* the cells whose scores tensor file n holds
CellsIn(n) ==
    IF n \in DOMAIN files
    THEN {c \in DOMAIN files[n].data : files[n].data[c] # ZeroRow}
    ELSE {}

\* C19 (as stated): the two tensor files are both there or both missing and
\* hold the scores of the same cells.
C19_TensorFilesConsistent ==
    /\ O1File \in DOMAIN files <=> O2File \in DOMAIN files
    /\ SweepStarted => CellsIn(O1File) = CellsIn(O2File)

\* C19 (amended): the same, but for the time between the two saves of a
\* cell, when the order-1 file is there and ahead by exactly that cell.
C19_TensorFilesConsistentButBetweenSaves ==
    /\ pc # "save_o2" =>
          /\ O1File \in DOMAIN files <=> O2File \in DOMAIN files
          /\ SweepStarted => CellsIn(O1File) = CellsIn(O2File)
    /\ pc = "save_o2" =>
          /\ O1File \in DOMAIN files
          /\ O2File \in DOMAIN files <=> CellsBefore(i, j) # {}
          /\ CellsIn(O2File) = CellsIn(O1File) \ {<<i, j>>}
          /\ R > 0 => <<i, j>> \in CellsIn(O1File)

C19_Witness ==
    /\ pc = "save_o2"
    /\ O2File \in DOMAIN files
    /\ R = 2
    /\ CellsIn(O1File) # CellsIn(O2File)

\* C20: when the call of a cell raises, sys.stdout is again the stream
\* captured at entry to experiment_loop.
C20_StdoutRestoredOnError ==
    pc = "failed" /\ err.at # "main" =>
       /\ sys_stdout = stdout
       /\ sys_stdout = Console

====
